---- MODULE Spec2Model ----
(***************************************************************************)
(* StreamingChatbotComponent (src/unnamed/part_000): the WebSocket         *)
(* lifecycle of the useEffect, the ws.onopen / onclose / onerror /         *)
(* onmessage handlers and handleSubmit, as one state machine.              *)
(*                                                                         *)
(* A text is a sequence of one-character strings, so that trim(), string   *)
(* concatenation and comparison against "###" are computed, not assumed.   *)
(***************************************************************************)
EXTENDS Integers, Sequences, FiniteSets, TLC

\* ------------------------------------------------------------------ bounds
MaxTurns   == 2    \* no frame and no query is taken once messages has this many turns
MaxTokens  == 2    \* token frames delivered in one run
MaxSockets == 2    \* WebSocket instances created in one run
MaxClock   == 1    \* largest reading of Date.now()

\* ------------------------------------------------- browser / JS constants
Null       == 0    \* socketRef.current === null
CONNECTING == 0    \* WebSocket.CONNECTING
OPEN       == 1    \* WebSocket.OPEN
CLOSING    == 2    \* WebSocket.CLOSING
CLOSED     == 3    \* WebSocket.CLOSED
FracUnits  == 2    \* an id is counted in units of 1/FracUnits of a tick
NoQueue    == -1   \* baseLen when no transcript update is queued
Unread     == -1   \* the id of a turn whose updater no render has run yet

VARIABLES
    input,        \* useState("")       the text box
    messages,     \* useState([])       the transcript
    loading,      \* useState(false)    the awaiting flag
    isConnected,  \* useState(false)    the connection status
    socketRef,    \* useRef(null)       Null or the index of an instance
    sockets,      \* the WebSocket instances created so far
    mounted,      \* the effect has run and its cleanup has not
    sent,         \* frames handed to WebSocket.send, in order
    fault,        \* an exception escaped a handler
    rendered,     \* the isConnected and loading of the last render, which
                  \* handleSubmit's closure and the page hold, and whether
                  \* the component is current: no update has been queued
                  \* that a render has still to run
    baseLen,      \* NoQueue, or the length the transcript had when the
                  \* first transcript update that no render has run yet
                  \* was queued (counted after that update when its
                  \* updater ran in the handler)
    now,          \* the reading Date.now() gives
    nTokens,      \* token frames delivered so far
    lastEvent,    \* history: the kind of the last handler that ran
    wasLoading,   \* history: the awaiting flag when that handler started
    run           \* history: the tokens that followed the last transmitted query

vars == <<input, messages, loading, isConnected, socketRef, sockets, mounted,
          sent, fault, rendered, baseLen, now, nTokens, lastEvent, wasLoading,
          run>>

\* ------------------------------------------------------------------ texts
Str_AnErrorOccurred ==
    <<"A","n"," ","e","r","r","o","r"," ","o","c","c","u","r","r","e","d">>

Str_ConnectionLost ==
    <<"C","o","n","n","e","c","t","i","o","n"," ","l","o","s","t","."," ",
      "P","l","e","a","s","e"," ","r","e","f","r","e","s","h"," ","t","h","e"," ",
      "p","a","g","e"," ","t","o"," ","r","e","c","o","n","n","e","c","t",".">>

Str_Sentinel == <<"#","#","#">>

\* A character outside ASCII is written by its code point.
\* ECMAScript WhiteSpace: TAB, VT, FF, SP, NBSP, ZWNBSP and the category Zs
WhiteSpaceChars ==
    {"\t", "U+000B", "\f", " ", "U+00A0", "U+FEFF",
     "U+1680", "U+2000", "U+2001", "U+2002", "U+2003", "U+2004", "U+2005",
     "U+2006", "U+2007", "U+2008", "U+2009", "U+200A", "U+202F", "U+205F",
     "U+3000"}

\* ECMAScript LineTerminator: LF, CR, LS, PS
LineTerminators == {"\n", "\r", "U+2028", "U+2029"}

\* what String.prototype.trim strips
WhiteSpace == WhiteSpaceChars \cup LineTerminators

\* String.prototype.trim: drop the white space at both ends.
RECURSIVE TrimStart(_)
TrimStart(s) ==
    IF s # <<>> /\ Head(s) \in WhiteSpace THEN TrimStart(Tail(s)) ELSE s

RECURSIVE TrimEnd(_)
TrimEnd(s) ==
    IF s # <<>> /\ s[Len(s)] \in WhiteSpace
    THEN TrimEnd(SubSeq(s, 1, Len(s) - 1))
    ELSE s

\* mutant: the guard tests !input, without trim()
Trim_None(s) == s

Trim(s) == TrimEnd(TrimStart(s))

\* what the user may have typed into the text box
Inputs == {<<>>, <<" ", "\f", "U+00A0">>, <<" ","h","i">>}

\* ----------------------------------------------------------------- frames
\* event.data is a string; what matters of it is how JSON.parse takes it.
Garbage    == [syntax |-> "garbage"]                   \* not JSON at all
JsonNull   == [syntax |-> "null"]                      \* the JSON text null
JsonObject(fields) == [syntax |-> "object", fields |-> fields]

\* JSON.parse(event.data): throws a SyntaxError on text that is not JSON.
JSONparse(raw) ==
    IF raw.syntax = "garbage"
    THEN [threw |-> TRUE]
    ELSE IF raw.syntax = "null"
         THEN [threw |-> FALSE, isNull |-> TRUE]
         ELSE [threw |-> FALSE, isNull |-> FALSE, fields |-> raw.fields]

\* mutant: the frame is built from the text box after it was cleared
JSONstringify_ClearedInput(obj) == JsonObject([message |-> <<>>])

\* JSON.stringify(obj) of a plain object
JSONstringify(obj) == JsonObject(obj)

\* data.f is undefined when the object has no property f
Has(data, f) == f \in DOMAIN data

\* data.type === t
TypeIs(data, t) == Has(data, "type") /\ data.type = t

\* the try block throws: JSON.parse did, or data is null and data.type
\* raises a TypeError
ParseThrows(raw) ==
    LET p == JSONparse(raw) IN p.threw \/ p.isNull

\* the text fragments of token frames (a token frame always carries one)
TokenContents == {<<"a">>, <<"b","c">>}

DataObjects ==
    {[type |-> "token", content |-> c] : c \in TokenContents}
    \cup {[type |-> "delimiter", text |-> Str_Sentinel],
          [type |-> "delimiter", text |-> <<"#","#">>],
          [type |-> "delimiter"]}
    \cup {[type |-> "error", content |-> <<"o","o","p","s">>],
          [type |-> "error", content |-> <<>>],
          [type |-> "error"]}
    \cup {[type |-> "typing"], [type |-> "ping"], [content |-> <<"a">>]}

\* the frames the server may push
Frames == {Garbage, JsonNull} \cup {JsonObject(d) : d \in DataObjects}

\* ------------------------------------------------------------------ turns
\* id: Date.now() + Math.random(), the sum of two doubles, in units of
\* 1/FracUnits of a tick.  The draw is below 1, and the sum is rounded to a
\* double: at a present-day clock reading the draws nearest to 1 give the
\* next whole number, which is draw FracUnits here.
IdAt(t, r) == t * FracUnits + r

NewId(r) == IdAt(now, r)

RandomDraws == 0 .. FracUnits

BotTurn(id, text) ==
    [id |-> id, sender |-> "bot", text |-> text, hasAnswer |-> FALSE]

\* mutant: the user turn records the trimmed text
UserTurn_Trimmed(id, text) ==
    [id |-> id, sender |-> "user", text |-> Trim(text)]

UserTurn(id, text) ==
    [id |-> id, sender |-> "user", text |-> text]

IsBot(t) == t.sender = "bot"

\* mutant: the test leaves hasAnswer out
LastIsOpenBot_AnyBot(prev) ==
    /\ prev # <<>>
    /\ IsBot(prev[Len(prev)])

\* last && last.sender === "bot" && !last.hasAnswer
LastIsOpenBot(prev) ==
    /\ prev # <<>>
    /\ IsBot(prev[Len(prev)])
    /\ ~prev[Len(prev)].hasAnswer

\* [...prev.slice(0, -1), x]
ReplaceLast(prev, x) == Append(SubSeq(prev, 1, Len(prev) - 1), x)

\* mutant: the new fragment is put in front of the text
TokenUpdater_Prepend(prev, content, id) ==
    IF LastIsOpenBot(prev)
    THEN LET last == prev[Len(prev)] IN
         ReplaceLast(prev, [last EXCEPT !.text = content \o last.text])
    ELSE Append(prev, BotTurn(id, content))

\* mutant: every token starts a turn of its own
TokenUpdater_AlwaysAppend(prev, content, id) ==
    Append(prev, BotTurn(id, content))

\* the updater of the token branch
TokenUpdater(prev, content, id) ==
    IF LastIsOpenBot(prev)
    THEN LET last == prev[Len(prev)] IN
         ReplaceLast(prev, [last EXCEPT !.text = last.text \o content])
    ELSE Append(prev, BotTurn(id, content))

\* mutant: the delimiter flips hasAnswer instead of setting it
DelimiterUpdater_Toggle(prev) ==
    IF prev # <<>> /\ IsBot(prev[Len(prev)])
    THEN LET last == prev[Len(prev)] IN
         ReplaceLast(prev, [last EXCEPT !.hasAnswer = ~last.hasAnswer])
    ELSE prev

\* mutant: the delimiter finalizes the latest unfinalized assistant turn,
\* wherever it is
DelimiterUpdater_LatestOpen(prev) ==
    LET open == {i \in 1 .. Len(prev) : IsBot(prev[i]) /\ ~prev[i].hasAnswer} IN
    IF open = {} THEN prev
    ELSE LET k == CHOOSE k \in open : \A j \in open : j <= k IN
         [prev EXCEPT ![k].hasAnswer = TRUE]

\* the updater of the delimiter branch
DelimiterUpdater(prev) ==
    IF prev # <<>> /\ IsBot(prev[Len(prev)])
    THEN LET last == prev[Len(prev)] IN
         ReplaceLast(prev, [last EXCEPT !.hasAnswer = TRUE])
    ELSE prev

\* mutant: data.content ?? "An error occurred", which keeps an empty content
ErrorText_NullishOnly(data) ==
    IF Has(data, "content") THEN data.content ELSE Str_AnErrorOccurred

\* data.content || "An error occurred"
ErrorText(data) ==
    IF Has(data, "content") /\ data.content # <<>>
    THEN data.content
    ELSE Str_AnErrorOccurred

\* mutant: the error turn takes the place of the last turn
ErrorUpdater_ReplaceLast(prev, data, id) ==
    ReplaceLast(prev, BotTurn(id, ErrorText(data)))

\* the updater of the error branch
ErrorUpdater(prev, data, id) == Append(prev, BotTurn(id, ErrorText(data)))

\* ---------------------------------------------------------------- sockets
Instances == 1 .. Len(sockets)

\* new WebSocket(url); closeCalls counts the calls of its close()
NewWebSocket == [readyState |-> CONNECTING, closeCalls |-> 0]

\* mutant: the ref is only tested for an instance, not for its readyState
RefIsOpen_AnyState == socketRef # Null

\* socketRef.current?.readyState === WebSocket.OPEN
RefIsOpen == socketRef # Null /\ sockets[socketRef].readyState = OPEN

\* ------------------------------------------------------------- histories
Idle == [phase |-> "idle", start |-> 0, tokens |-> <<>>]

\* the tokens that followed the last transmitted query, while nothing but
\* tokens and then delimiters followed it
RunAfter(kind, content, turnsBefore) ==
    CASE kind = "sent" ->
           [phase |-> "streaming", start |-> turnsBefore + 1, tokens |-> <<>>]
      [] kind = "token" /\ run.phase = "streaming" ->
           [run EXCEPT !.tokens = Append(@, content)]
      [] kind = "###" /\ run.phase = "streaming" ->
           [run EXCEPT !.phase = "finalized"]
      [] kind = "###" /\ run.phase \in {"finalized", "finalized twice"} ->
           [run EXCEPT !.phase = "finalized twice"]
      [] OTHER -> Idle

\* --------------------------------------------------------- the renders
\* A state update made in ws.onopen, ws.onerror, ws.onmessage or in the
\* effect is queued and run by a render in a later task; an update made in
\* onChange, onSubmit or ws.onclose (React takes change, submit and close
\* for discrete events) is run by a render at the end of that event, which
\* leaves the queued ones queued.  A transcript updater of handleSubmit that is queued
\* behind one such a render has left is run by that render and again by
\* every render until the queue is empty, and each run of an updater that
\* builds a turn reads Date.now() and Math.random() anew.  messages is the
\* transcript with every queued updater applied; the turn of an updater
\* that no render has run has no id yet.

\* an update was queued: the component is no longer current
Stale == [rendered EXCEPT !.current = FALSE]

\* the assistant turns whose updater the render of what is queued has to
\* run: those behind the first queued update (a user turn's id is built in
\* handleSubmit, not in its updater)
ToRun(ms, base) ==
    IF base = NoQueue THEN {}
    ELSE {i \in (base + 1) .. Len(ms) : IsBot(ms[i])}

\* those of them whose updater the render that ends an event of the page
\* runs again: the ones of handleSubmit, which such a render has run before
ToRunAgain(ms, base) == {i \in ToRun(ms, base) : ms[i].id # Unread}

\* how the updaters of a session are run: rd.delays are the ticks the
\* clock may have made since the step began when a render reads it,
\* rd.draws the draws, rd.eager whether React may run an updater in the
\* handler; rd.sent and rd.lost are the lengths of the transcript up to
\* which handleSubmit's sending branch and its connection-lost branch are
\* followed
Still == [delays |-> {0}, draws |-> {0}, eager |-> {FALSE},
          sent |-> MaxTurns - 1, lost |-> MaxTurns - 1]

\* the clock and the draw are free, in a session long enough for a second
\* connection-lost reply
AnyReading == [delays |-> 0 .. MaxClock, draws |-> RandomDraws, eager |-> BOOLEAN,
               sent |-> MaxTurns - 1, lost |-> MaxTurns + 1]

\* the clock is free, in a session long enough for a query after a
\* connection-lost reply
DevReading == [delays |-> 0 .. MaxClock, draws |-> {0}, eager |-> {FALSE},
               sent |-> MaxTurns, lost |-> MaxTurns - 1]

\* the readings of one render for the turns I, in the order of the turns
Readings(I, rd) ==
    {f \in [I -> rd.delays \X rd.draws] :
        \A i \in I, j \in I : i < j => f[i][1] <= f[j][1]}

\* the last reading of the clock in f
LastDelay(I, f) ==
    IF I = {} THEN 0 ELSE f[CHOOSE i \in I : \A j \in I : j <= i][1]

\* transcript ms with the ids of the turns I read as f says
ReadIds(ms, I, f) ==
    [i \in 1 .. Len(ms) |->
        IF i \in I THEN [ms[i] EXCEPT !.id = IdAt(now + f[i][1], f[i][2])]
        ELSE ms[i]]

\* a render runs the updaters of the turns I of transcript ms
RunUpdaters(ms, I, rd) ==
    \E f \in Readings(I, rd) :
        /\ now + LastDelay(I, f) <= MaxClock
        /\ now' = now + LastDelay(I, f)
        /\ messages' = ReadIds(ms, I, f)

\* ------------------------------------------------------------------- Init
Init ==
    /\ input = <<>>
    /\ messages = <<>>
    /\ loading = FALSE
    /\ isConnected = FALSE
    /\ socketRef = Null
    /\ sockets = <<>>
    /\ mounted = FALSE
    /\ sent = <<>>
    /\ fault = FALSE
    /\ rendered = [isConnected |-> FALSE, loading |-> FALSE, current |-> TRUE]
    /\ baseLen = NoQueue
    /\ now = 0
    /\ nTokens = 0
    /\ lastEvent = "none"
    /\ wasLoading = FALSE
    /\ run = Idle

\* ------------------------------------------------------------ the effect
\* a cleanup that drops the ref and leaves the instance as it is
CloseRef_NoClose == sockets

\* close() of the cleanup: only an OPEN or CONNECTING instance is closed
CloseRef ==
    IF socketRef # Null /\ sockets[socketRef].readyState \in {OPEN, CONNECTING}
    THEN [sockets EXCEPT ![socketRef] =
              [readyState |-> CLOSING, closeCalls |-> @.closeCalls + 1]]
    ELSE sockets

\* a cleanup that closes the instance and keeps the ref
CleanupRef_Kept == socketRef

\* socketRef.current = null, the ref the cleanup leaves
CleanupRef == Null

\* useEffect body, first run: create the instance unless the ref holds one
Mount ==
    /\ ~mounted
    /\ sockets = <<>>
    /\ mounted' = TRUE
    /\ IF socketRef = Null
       THEN /\ sockets' = Append(sockets, NewWebSocket)
            /\ socketRef' = Len(sockets) + 1
       ELSE UNCHANGED <<sockets, socketRef>>
    /\ lastEvent' = "mount"
    /\ wasLoading' = loading
    /\ run' = RunAfter("mount", <<>>, 0)
    /\ UNCHANGED <<rendered, baseLen, input, messages, loading, isConnected, sent, fault, now, nTokens>>

\* the effect's cleanup when the component unmounts: close() the instance,
\* drop the ref.  No state of the component changes after it.
Cleanup ==
    /\ mounted
    /\ mounted' = FALSE
    /\ sockets' = CloseRef
    /\ socketRef' = CleanupRef
    /\ isConnected' = FALSE
    /\ lastEvent' = "cleanup"
    /\ wasLoading' = loading
    /\ run' = RunAfter("cleanup", <<>>, 0)
    /\ UNCHANGED <<rendered, baseLen, input, messages, loading, sent, fault, now, nTokens>>

\* the effect re-run on a mounted component (React StrictMode, Fast Refresh):
\* React renders the component, which runs again the updaters of
\* handleSubmit that are kept behind a queued update, and then runs the
\* cleanup and the body in the same synchronous commit.  The body creates a
\* new instance unless the ref the cleanup left holds one; the cleanup's
\* setIsConnected(false) is queued.
Remount(rd) ==
    /\ mounted
    /\ Len(sockets) < MaxSockets
    /\ RunUpdaters(messages, ToRunAgain(messages, baseLen), rd)
    /\ IF CleanupRef = Null
       THEN /\ sockets' = Append(CloseRef, NewWebSocket)
            /\ socketRef' = Len(sockets) + 1
       ELSE /\ sockets' = CloseRef
            /\ socketRef' = CleanupRef
    /\ isConnected' = FALSE
    /\ rendered' = Stale
    /\ lastEvent' = "remount"
    /\ wasLoading' = loading
    /\ run' = RunAfter("remount", <<>>, 0)
    /\ UNCHANGED <<baseLen, input, loading, mounted, sent, fault, nTokens>>

\* ------------------------------------------------- connection callbacks
\* The cleanup does not detach the handlers, so they run for an instance
\* after the unmount too; React drops the state updates of an unmounted
\* component, and then only the instance changes.
\* ws.onopen, when the handshake of instance s succeeds
OnOpen(s) ==
    /\ mounted
    /\ sockets[s].readyState = CONNECTING
    /\ sockets' = [sockets EXCEPT ![s].readyState = OPEN]
    /\ isConnected' = TRUE
    /\ rendered' = Stale
    /\ lastEvent' = "open"
    /\ wasLoading' = loading
    /\ run' = RunAfter("open", <<>>, 0)
    /\ UNCHANGED <<baseLen, input, messages, loading, socketRef, mounted, sent, fault,
                   now, nTokens>>

\* the closing handshake of instance s starts (the server's close frame):
\* readyState becomes CLOSING and no handler runs
StartClosing(s) ==
    /\ mounted
    /\ sockets[s].readyState = OPEN
    /\ sockets' = [sockets EXCEPT ![s].readyState = CLOSING]
    /\ UNCHANGED <<rendered, baseLen, input, messages, loading, isConnected, socketRef,
                   mounted, sent, fault, now, nTokens, lastEvent, wasLoading, run>>

\* the render that ends the close event: it shows what onclose has set and
\* runs again the updaters of handleSubmit that are kept behind a queued
\* update
CloseRender(shown, rd) ==
    /\ rendered' = shown
    /\ RunUpdaters(messages, ToRunAgain(messages, baseLen), rd)

\* mutant: neither onerror nor onclose clears the flag
OnError_KeepsLoading(s, rd) ==
    /\ sockets[s].readyState \in {CONNECTING, OPEN, CLOSING}
    /\ sockets' = [sockets EXCEPT ![s].readyState = CLOSED]
    /\ IF mounted
       THEN /\ isConnected' = FALSE
            /\ CloseRender([isConnected |-> FALSE, loading |-> rendered.loading,
                            current |-> FALSE], rd)
       ELSE UNCHANGED <<isConnected, rendered, messages, now>>
    /\ lastEvent' = "wserror"
    /\ wasLoading' = loading
    /\ run' = RunAfter("wserror", <<>>, 0)
    /\ UNCHANGED <<baseLen, input, loading, socketRef, mounted, sent, fault, nTokens>>

\* ws.onerror and then ws.onclose: the connection of instance s failed.  The
\* browser sets readyState to CLOSED and fires error and close in one task,
\* so the two handlers run back to back.  The updates of onerror stay
\* queued; the render that ends the close event shows those of onclose.
OnError(s, rd) ==
    /\ sockets[s].readyState \in {CONNECTING, OPEN, CLOSING}
    /\ sockets' = [sockets EXCEPT ![s].readyState = CLOSED]
    /\ IF mounted
       THEN /\ isConnected' = FALSE
            /\ loading' = FALSE
            /\ CloseRender([isConnected |-> FALSE, loading |-> FALSE,
                            current |-> FALSE], rd)
       ELSE UNCHANGED <<isConnected, loading, rendered, messages, now>>
    /\ lastEvent' = "wserror"
    /\ wasLoading' = loading
    /\ run' = RunAfter("wserror", <<>>, 0)
    /\ UNCHANGED <<baseLen, input, socketRef, mounted, sent, fault, nTokens>>

\* mutant: onclose connects again
OnClose_Reconnects(s, rd) ==
    /\ sockets[s].readyState \in {OPEN, CLOSING}
    /\ IF Len(sockets) < MaxSockets
       THEN /\ sockets' = Append([sockets EXCEPT ![s].readyState = CLOSED], NewWebSocket)
            /\ socketRef' = Len(sockets) + 1
       ELSE /\ sockets' = [sockets EXCEPT ![s].readyState = CLOSED]
            /\ socketRef' = socketRef
    /\ IF mounted
       THEN /\ isConnected' = FALSE
            /\ loading' = FALSE
            /\ CloseRender([rendered EXCEPT !.isConnected = FALSE,
                                            !.loading = FALSE], rd)
       ELSE UNCHANGED <<isConnected, loading, rendered, messages, now>>
    /\ lastEvent' = "wsclose"
    /\ wasLoading' = loading
    /\ run' = RunAfter("wsclose", <<>>, 0)
    /\ UNCHANGED <<baseLen, input, mounted, sent, fault, nTokens>>

\* ws.onclose: instance s closed without an error.  React renders the two
\* updates at the end of the close event.
OnClose(s, rd) ==
    /\ sockets[s].readyState \in {OPEN, CLOSING}
    /\ sockets' = [sockets EXCEPT ![s].readyState = CLOSED]
    /\ IF mounted
       THEN /\ isConnected' = FALSE
            /\ loading' = FALSE
            /\ CloseRender([rendered EXCEPT !.isConnected = FALSE,
                                            !.loading = FALSE], rd)
       ELSE UNCHANGED <<isConnected, loading, rendered, messages, now>>
    /\ lastEvent' = "wsclose"
    /\ wasLoading' = loading
    /\ run' = RunAfter("wsclose", <<>>, 0)
    /\ UNCHANGED <<baseLen, input, socketRef, mounted, sent, fault, nTokens>>

\* ------------------------------------------------------------ ws.onmessage
\* mutant: the delimiter branch does not test data.text
Branch_AnyDelimiter(raw) ==
    IF ParseThrows(raw) THEN "malformed"
    ELSE LET data == JSONparse(raw).fields IN
         IF TypeIs(data, "token") THEN "token"
         ELSE IF TypeIs(data, "delimiter") THEN "delimiter"
         ELSE IF TypeIs(data, "error") THEN "error"
         ELSE IF TypeIs(data, "typing") THEN "typing"
         ELSE "unknown"

\* which branch of the handler a frame takes
Branch(raw) ==
    IF ParseThrows(raw) THEN "malformed"
    ELSE LET data == JSONparse(raw).fields IN
         IF TypeIs(data, "token") THEN "token"
         ELSE IF TypeIs(data, "delimiter") /\ Has(data, "text")
                 /\ data.text = Str_Sentinel THEN "delimiter"
         ELSE IF TypeIs(data, "error") THEN "error"
         ELSE IF TypeIs(data, "typing") THEN "typing"
         ELSE "unknown"

\* the setMessages call of the branch, if it makes one
ReduceMessages(prev, raw, id) ==
    LET b == Branch(raw) IN
    IF b = "token" THEN TokenUpdater(prev, JSONparse(raw).fields.content, id)
    ELSE IF b = "delimiter" THEN DelimiterUpdater(prev)
    ELSE IF b = "error" THEN ErrorUpdater(prev, JSONparse(raw).fields, id)
    ELSE prev

\* mutant: the catch block only logs
ReduceLoading_CatchKeeps(flag, raw) ==
    IF Branch(raw) \in {"delimiter", "error"} THEN FALSE ELSE flag

\* mutant: the token branch clears the flag too
ReduceLoading_TokenClears(flag, raw) ==
    IF Branch(raw) \in {"token", "delimiter", "error", "malformed"} THEN FALSE ELSE flag

\* mutant: a typing frame or an unknown frame ends the wait
ReduceLoading_TypingClears(flag, raw) ==
    IF Branch(raw) \in {"delimiter", "error", "malformed", "typing", "unknown"}
    THEN FALSE ELSE flag

\* the setLoading(false) call of the delimiter, error and catch branches
ReduceLoading(flag, raw) ==
    IF Branch(raw) \in {"delimiter", "error", "malformed"} THEN FALSE ELSE flag

\* the frame fits the bounds of the model
WithinBounds(raw) ==
    LET b == Branch(raw) IN
    /\ b = "token" => /\ nTokens < MaxTokens
                      /\ LastIsOpenBot(messages) \/ Len(messages) < MaxTurns
    /\ b = "error" => Len(messages) < MaxTurns

\* history label of a frame: its branch, with the delimiter frames that are
\* not the sentinel told apart from the other unknown frames
EventKind(raw) ==
    IF Branch(raw) = "unknown" /\ raw.syntax = "object"
       /\ "type" \in DOMAIN raw.fields /\ raw.fields.type = "delimiter"
    THEN "other delimiter"
    ELSE Branch(raw)

\* the branch of the frame calls setMessages
SetsMessages(raw) == Branch(raw) \in {"token", "delimiter", "error"}

\* the branch of the frame calls a state setter
SetsState(raw) == Branch(raw) \in {"token", "delimiter", "error", "malformed"}

\* ws.onmessage of instance s, given the frame, the Math.random() draw and
\* whether React runs the updater in the handler, as it may when the
\* component is current, or leaves it to the render
OnMessageBy(s, raw, r, eager) ==
    /\ mounted
    /\ sockets[s].readyState = OPEN
    /\ WithinBounds(raw)
    /\ messages' = ReduceMessages(messages, raw,
                                  IF eager /\ rendered.current
                                  THEN NewId(r) ELSE Unread)
    /\ loading' = ReduceLoading(loading, raw)
    /\ rendered' = IF SetsState(raw) THEN Stale ELSE rendered
    /\ baseLen' = IF ~SetsMessages(raw) \/ baseLen # NoQueue THEN baseLen
                  ELSE IF eager /\ rendered.current THEN Len(messages')
                  ELSE Len(messages)
    /\ nTokens' = IF Branch(raw) = "token" THEN nTokens + 1 ELSE nTokens
    /\ lastEvent' = EventKind(raw)
    /\ wasLoading' = loading
    /\ run' = RunAfter(IF Branch(raw) = "delimiter" THEN "###" ELSE Branch(raw),
                       IF Branch(raw) = "token"
                       THEN JSONparse(raw).fields.content ELSE <<>>, 0)
    /\ UNCHANGED <<input, isConnected, socketRef, sockets, mounted, sent, fault, now>>

\* ws.onmessage of instance s
OnMessage(s, raw, r) == \E eager \in BOOLEAN : OnMessageBy(s, raw, r, eager)

\* ------------------------------------------------------------ the form
\* onChange of the text box: setInput(e.target.value), and the render that
\* ends the event
SetInput(v, rd) ==
    /\ mounted
    /\ v # input
    /\ input' = v
    /\ RunUpdaters(messages, ToRunAgain(messages, baseLen), rd)
    /\ UNCHANGED <<rendered, baseLen, loading, isConnected, socketRef, sockets, mounted,
                   sent, fault, nTokens, lastEvent, wasLoading, run>>

\* mutant: the guard tests the input alone
Rejected_InputOnly == Trim(input) = <<>>

\* !input.trim() || !isConnected, with the isConnected of the last render
Rejected == Trim(input) = <<>> \/ ~rendered.isConnected

\* WebSocket.send throws on a CONNECTING instance; a null ref has no send
SendThrows == socketRef = Null \/ sockets[socketRef].readyState = CONNECTING

\* handleSubmit, given the Math.random() draw of the user turn's id, which
\* is built in the handler, and the readings of the render that ends the
\* event.  That render runs the updater of the connection-lost reply, which
\* builds the reply's id; it shows the loading the event has set and leaves
\* what is queued, an isConnected that a callback has set included.
HandleSubmit(r1, rd) ==
    /\ mounted
    /\ IF Rejected
       THEN /\ lastEvent' = "rejected"
            /\ wasLoading' = loading
            /\ run' = RunAfter("rejected", <<>>, 0)
            /\ UNCHANGED <<input, messages, loading, sent, fault, rendered, now>>
       ELSE IF RefIsOpen
            THEN /\ Len(messages) <= rd.sent
                 /\ LET ms == Append(messages, UserTurn(NewId(r1), input)) IN
                        RunUpdaters(ms, ToRunAgain(ms, baseLen), rd)
                 /\ input' = <<>>
                 /\ loading' = TRUE
                 /\ rendered' = [rendered EXCEPT !.loading = TRUE]
                 /\ sent' = Append(sent, JSONstringify([message |-> input]))
                 /\ fault' = (fault \/ SendThrows)
                 /\ lastEvent' = "sent"
                 /\ wasLoading' = loading
                 /\ run' = RunAfter("sent", <<>>, Len(messages))
            ELSE /\ Len(messages) <= rd.lost
                 /\ LET ms == messages \o <<UserTurn(NewId(r1), input),
                                            BotTurn(Unread, Str_ConnectionLost)>>
                    IN  RunUpdaters(ms, ToRunAgain(ms, baseLen) \cup {Len(ms)}, rd)
                 /\ input' = <<>>
                 /\ loading' = FALSE
                 /\ rendered' = [rendered EXCEPT !.loading = FALSE]
                 /\ lastEvent' = "connlost"
                 /\ wasLoading' = loading
                 /\ run' = RunAfter("connlost", <<>>, 0)
                 /\ UNCHANGED <<sent, fault>>
    /\ UNCHANGED <<baseLen, isConnected, socketRef, sockets, mounted, nTokens>>

\* React renders what the callbacks have queued.  It does so in a task of
\* its own after the callback (or within it, in a build that renders
\* synchronously: then this step follows the callback at once).
Render(rd) ==
    /\ mounted
    /\ ~rendered.current
    /\ rendered' = [isConnected |-> isConnected, loading |-> loading, current |-> TRUE]
    /\ baseLen' = NoQueue
    /\ RunUpdaters(messages, ToRun(messages, baseLen), rd)
    /\ UNCHANGED <<input, loading, isConnected, socketRef, sockets, mounted, sent,
                   fault, nTokens, lastEvent, wasLoading, run>>

\* mutant: the button ignores the awaiting flag
ButtonDisabled_NoLoading == Trim(input) = <<>> \/ ~rendered.isConnected

\* disabled={loading || !input.trim() || !isConnected} of the submit button
ButtonDisabled ==
    rendered.loading \/ Trim(input) = <<>> \/ ~rendered.isConnected

\* the form is submitted through the page: the button is clicked, or Enter is
\* pressed in the text box, which a disabled submit button blocks
SubmitClick(r1, rd) ==
    /\ ~ButtonDisabled
    /\ HandleSubmit(r1, rd)

\* ------------------------------------------------------------- the clock
\* Date.now() advances
Tick ==
    /\ now < MaxClock
    /\ now' = now + 1
    /\ UNCHANGED <<rendered, baseLen, input, messages, loading, isConnected, socketRef, sockets,
                   mounted, sent, fault, nTokens, lastEvent, wasLoading, run>>

\* ------------------------------------------------------------------ Next
\* the steps that create no turn
Lifecycle(inputs, rd) ==
    \/ Mount
    \/ Cleanup
    \/ \E s \in Instances : OnOpen(s)
    \/ \E s \in Instances : StartClosing(s)
    \/ \E s \in Instances : OnError(s, rd)
    \/ \E s \in Instances : OnClose(s, rd)
    \/ \E v \in inputs : SetInput(v, rd)
    \/ Render(rd)

\* the frames of a reply and of its failures: the tokens, the final
\* delimiter, an error and the two malformed frames
StreamFrames ==
    {Garbage, JsonNull}
    \cup {JsonObject([type |-> "token", content |-> c]) : c \in TokenContents}
    \cup {JsonObject([type |-> "delimiter", text |-> Str_Sentinel]),
          JsonObject([type |-> "error", content |-> <<"o","o","p","s">>])}

\* One session of the component: mounted once, unmounted at most once.  No
\* handler reads a turn's id, so the clock stands still, Math.random()
\* draws 0 and every updater is left to the render here: the ids are the
\* same whenever they are built.
Next ==
    \/ Lifecycle(Inputs, Still)
    \/ \E s \in Instances, raw \in StreamFrames : OnMessageBy(s, raw, 0, FALSE)
    \/ HandleSubmit(0, Still)

Spec == Init /\ [][Next]_vars

\* One session in which every submit goes through the page.
NextUI ==
    \/ Lifecycle(Inputs, Still)
    \/ \E s \in Instances, raw \in StreamFrames : OnMessageBy(s, raw, 0, FALSE)
    \/ SubmitClick(0, Still)

SpecUI == Init /\ [][NextUI]_vars

\* the texts typed in a session that is watched for something else
LiveInputs == {<<>>, <<" ", "h", "i">>}

\* every frame the server may push, with one token content
WireFrames == Frames \ {JsonObject([type |-> "token", content |-> <<"b","c">>])}

\* One session that receives every kind of frame.
NextWire ==
    \/ Lifecycle(LiveInputs, Still)
    \/ \E s \in Instances, raw \in WireFrames : OnMessageBy(s, raw, 0, FALSE)
    \/ HandleSubmit(0, Still)

SpecWire == Init /\ [][NextWire]_vars

\* the frames a development session receives: one token, the final
\* delimiter and one malformed frame
DevFrames ==
    { JsonObject([type |-> "token", content |-> <<"a">>]),
      JsonObject([type |-> "delimiter", text |-> Str_Sentinel]),
      Garbage }

\* A development session: the effect may also be re-run.
NextDev ==
    \/ Lifecycle(LiveInputs, Still)
    \/ \E s \in Instances, raw \in DevFrames : OnMessageBy(s, raw, 0, FALSE)
    \/ HandleSubmit(0, Still)
    \/ Remount(Still)

SpecDev == Init /\ [][NextDev]_vars

\* the frames of a session that is watched for its progress: the three that
\* end a reply (the final delimiter, an error, a malformed frame)
LiveFrames ==
    { JsonObject([type |-> "delimiter", text |-> Str_Sentinel]),
      JsonObject([type |-> "error", content |-> <<"o", "o", "p", "s">>]),
      Garbage }

\* A development session that is watched for its progress.
NextLive ==
    \/ Mount
    \/ Cleanup
    \/ Remount(Still)
    \/ \E s \in Instances : OnOpen(s)
    \/ \E s \in Instances : StartClosing(s)
    \/ \E s \in Instances : OnError(s, Still)
    \/ \E s \in Instances : OnClose(s, Still)
    \/ \E v \in LiveInputs : SetInput(v, Still)
    \/ Render(Still)
    \/ \E s \in Instances, raw \in LiveFrames : OnMessageBy(s, raw, 0, FALSE)
    \/ HandleSubmit(0, Still)

\* instance s delivers a frame that ends a reply, or closes, or fails
Terminate(s, rd) ==
    /\ s \in Instances
    /\ \/ OnClose(s, rd)
       \/ OnError(s, rd)
       \/ \E raw \in LiveFrames, r \in rd.draws, eager \in rd.eager :
              OnMessageBy(s, raw, r, eager)

\* A development session whose connections do not stay silent for ever: each
\* instance goes on to deliver a terminating frame, to close or to fail.
SpecLive ==
    /\ Init
    /\ [][NextLive]_vars
    /\ \A s \in 1 .. MaxSockets : WF_vars(Terminate(s, Still))

\* the frames of a session that is watched for its ids: the two that create
\* a turn, and the final delimiter
IdFrames ==
    { JsonObject([type |-> "token", content |-> <<"a">>]),
      JsonObject([type |-> "error", content |-> <<"o", "o", "p", "s">>]),
      JsonObject([type |-> "delimiter", text |-> Str_Sentinel]) }

\* One session with the clock running and every Math.random() draw.
NextIds ==
    \/ Lifecycle(LiveInputs, AnyReading)
    \/ \E s \in Instances, raw \in IdFrames, r \in RandomDraws : OnMessage(s, raw, r)
    \/ \E r1 \in RandomDraws : HandleSubmit(r1, AnyReading)
    \/ Tick

SpecIds == Init /\ [][NextIds]_vars

\* A development session with the clock running: the effect may be re-run,
\* and the one frame is the final delimiter.
NextDevIds ==
    \/ Lifecycle(LiveInputs, DevReading)
    \/ \E s \in Instances :
          OnMessageBy(s, JsonObject([type |-> "delimiter", text |-> Str_Sentinel]),
                      0, FALSE)
    \/ HandleSubmit(0, DevReading)
    \/ Remount(DevReading)
    \/ Tick

SpecDevIds == Init /\ [][NextDevIds]_vars

\* ================================================================= claims
\* the frames of the wire protocol, as the server writes them
TokenFrame(c)   == JsonObject([type |-> "token", content |-> c])
FinalizeFrame   == JsonObject([type |-> "delimiter", text |-> Str_Sentinel])
IsErrorFrame(raw) ==
    /\ raw.syntax = "object"
    /\ "type" \in DOMAIN raw.fields
    /\ raw.fields.type = "error"

\* the literal join of a sequence of texts
RECURSIVE Concat(_)
Concat(ss) == IF ss = <<>> THEN <<>> ELSE Head(ss) \o Concat(Tail(ss))

\* a text of white space only, the empty text included
IsBlank(t) == \A i \in 1 .. Len(t) : t[i] \in WhiteSpace

\* the ref holds an instance whose readyState is OPEN
SocketOpen == socketRef # Null /\ sockets[socketRef].readyState = OPEN

\* the status the page displays and a submit reads: that of the last render
StatusShown == rendered.isConnected

\* the assistant turns with finalized = false
OpenBots(m) == {i \in 1 .. Len(m) : m[i].sender = "bot" /\ ~m[i].hasAnswer}

\* turn t2 is turn t: the same fields, or the same but for the id when t
\* had none yet
SameTurn(t, t2) ==
    \/ t2 = t
    \/ t.id = Unread /\ t2 = [t EXCEPT !.id = t2.id]

\* every turn of m but the last is at its place in m2
KeepsAllButLast(m, m2) ==
    /\ Len(m2) >= Len(m)
    /\ \A i \in 1 .. (Len(m) - 1) : SameTurn(m[i], m2[i])

\* the events handleSubmit records
SubmitEvents == {"rejected", "sent", "connlost"}

\* handleSubmit ran in this step (a step that records another event is
\* none of its steps, which spares the look at the step itself)
SubmitStep ==
    /\ lastEvent' \in SubmitEvents
    /\ \E r1 \in RandomDraws : HandleSubmit(r1, AnyReading)

\* ws.onmessage took the branch named in this step: every step of the
\* handler records its branch, so the steps that record another event need
\* no further look
Recorded(kind) == lastEvent' = kind

\* ---------------------------------------------------------------------- C1
\* C1: while nothing but tokens (at least one), and then the delimiter, has
\* followed a transmitted query, the transcript ends with the user turn of
\* that query and one assistant turn after it whose text is the join of the
\* token contents in arrival order; once the delimiter is processed that
\* turn is finalized and the awaiting flag is false.
C1_TokensConcatenate ==
    run.tokens # <<>> =>
        /\ Len(messages) = run.start + 1
        /\ messages[run.start].sender = "user"
        /\ messages[run.start + 1].sender = "bot"
        /\ messages[run.start + 1].text = Concat(run.tokens)
        /\ run.phase = "streaming" => ~messages[run.start + 1].hasAnswer
        /\ run.phase # "streaming" =>
               messages[run.start + 1].hasAnswer /\ ~loading

\* a query, the tokens "a" and "bc", the delimiter
C1_Witness ==
    /\ run.phase = "finalized"
    /\ run.tokens = << <<"a">>, <<"b", "c">> >>
    /\ messages[Len(messages)].text = <<"a", "b", "c">>

\* ---------------------------------------------------------------------- C2
\* C2 as claimed: at most one assistant turn has finalized = false.
C2_AtMostOneOpen == Cardinality(OpenBots(messages)) <= 1

\* C2 as amended: a token that arrives while the last turn is an unfinalized
\* assistant turn extends that turn: it appends no turn and leaves the number
\* of unfinalized assistant turns as it was.
C2_TokenExtendsOpenTurn ==
    [][Recorded("token") =>
          \A s \in Instances, c \in TokenContents, r \in RandomDraws :
              (LastIsOpenBot(messages) /\ OnMessage(s, TokenFrame(c), r)) =>
                  /\ Len(messages') = Len(messages)
                  /\ OpenBots(messages') = OpenBots(messages)]_vars

\* two tokens went into one turn
C2_Witness ==
    /\ lastEvent = "token"
    /\ nTokens = 2
    /\ Len(messages) = 1
    /\ LastIsOpenBot(messages)

\* ---------------------------------------------------------------------- C3
\* C3: every step leaves the length of the transcript as it was or one
\* longer (two longer in the one step where handleSubmit finds the status
\* connected and the socket not open: the user turn and the connection-lost
\* turn), keeps every turn but the last as it was, and changes the last turn
\* only if it is an assistant turn.
C3_AppendOnlyUpToTwo ==
    [][/\ Len(messages') \in {Len(messages), Len(messages) + 1, Len(messages) + 2}
       /\ Len(messages') = Len(messages) + 2 =>
              SubmitStep /\ StatusShown /\ ~SocketOpen
       /\ KeepsAllButLast(messages, messages')
       /\ messages # <<>> =>
              \/ SameTurn(messages[Len(messages)], messages'[Len(messages)])
              \/ messages[Len(messages)].sender = "bot"]_vars

\* ---------------------------------------------------------------------- C4
\* C4: a frame on which the try block throws leaves the transcript as it
\* was and the awaiting flag false; the instance stays as it was, so the
\* frames that follow are still delivered.
C4_MalformedFrame ==
    [][Recorded("malformed") =>
          \A s \in Instances, raw \in {Garbage, JsonNull}, r \in RandomDraws :
              OnMessage(s, raw, r) =>
                  /\ messages' = messages
                  /\ loading' = FALSE
                  /\ sockets' = sockets
                  /\ sockets[s].readyState = OPEN]_vars

\* a malformed frame arrived while a query was awaited
C4_Witness ==
    /\ lastEvent = "malformed"
    /\ wasLoading
    /\ ~loading
    /\ messages # <<>>

\* ---------------------------------------------------------------------- C5
\* C5: handleSubmit on an empty or white-space-only input appends no turn,
\* sends no frame and leaves the awaiting flag as it was.
C5_BlankSubmit ==
    [][(IsBlank(input) /\ SubmitStep) =>
          /\ messages' = messages
          /\ sent' = sent
          /\ loading' = loading]_vars

\* a white-space-only submit on an open connection, while a query is awaited
C5_Witness ==
    /\ lastEvent = "rejected"
    /\ input # <<>>
    /\ IsBlank(input)
    /\ "\f" \in {input[i] : i \in 1 .. Len(input)}
    /\ StatusShown
    /\ SocketOpen
    /\ loading

\* ---------------------------------------------------------------------- C6
\* C6: a frame is handed to send only in a step that starts with the ref on
\* an OPEN instance; handleSubmit in any other connection state, a stale
\* displayed status included, sends nothing, and no exception escapes.
C6_SendOnlyWhenOpen ==
    [][/\ sent' # sent => SocketOpen
       /\ (SubmitStep /\ ~SocketOpen) => sent' = sent
       /\ ~fault']_vars

\* a submit while the status said connected and the instance was CLOSING
C6_Witness ==
    /\ lastEvent = "connlost"
    /\ StatusShown
    /\ sockets[socketRef].readyState = CLOSING
    /\ sent = <<>>

\* ---------------------------------------------------------------------- C7
\* C7 as claimed: every handleSubmit on an empty input, or while the
\* connection is not open, sends nothing and appends an assistant turn.
C7_RejectedSurfaced ==
    [][(SubmitStep /\ (IsBlank(input) \/ ~StatusShown \/ ~SocketOpen)) =>
          /\ sent' = sent
          /\ Len(messages') > Len(messages)
          /\ messages'[Len(messages')].sender = "bot"]_vars

\* C7 as amended: no rejected submit is sent.  A submit on a blank input, or
\* while the displayed status is not connected, appends nothing.  A submit of
\* a non-blank input while the status says connected and the socket is not
\* open appends the user turn and then an unfinalized assistant turn with the
\* connection-lost text, and leaves the awaiting flag false.
C7_RejectedSubmit ==
    [][/\ (SubmitStep /\ (IsBlank(input) \/ ~StatusShown)) =>
              messages' = messages /\ sent' = sent
       /\ (SubmitStep /\ ~IsBlank(input) /\ StatusShown /\ ~SocketOpen) =>
              /\ sent' = sent
              /\ Len(messages') = Len(messages) + 2
              /\ SubSeq(messages', 1, Len(messages)) = messages
              /\ messages'[Len(messages) + 1].sender = "user"
              /\ messages'[Len(messages) + 1].text = input
              /\ messages'[Len(messages) + 2].sender = "bot"
              /\ messages'[Len(messages) + 2].text = Str_ConnectionLost
              /\ ~messages'[Len(messages) + 2].hasAnswer
              /\ ~loading']_vars

\* the connection-lost turn is in the transcript
C7_Witness ==
    /\ lastEvent = "connlost"
    /\ messages[Len(messages)].text = Str_ConnectionLost
    /\ messages[Len(messages) - 1].text = <<" ", "h", "i">>
    /\ ~loading

\* ---------------------------------------------------------------------- C8
\* C8: when onclose or onerror runs while the awaiting flag of the mounted
\* component is true, the flag is false afterwards, the status is not
\* connected, the instance is not OPEN, and the transcript is as it was,
\* whatever the clock reads in the render that ends the close event.
\* (An unmounted component has no flag: React has discarded its state.)
C8_CloseClearsAwaiting ==
    [][\A s \in Instances :
          (mounted /\ loading /\
              (OnClose(s, AnyReading) \/ OnError(s, AnyReading))) =>
              /\ ~loading'
              /\ ~isConnected'
              /\ sockets'[s].readyState # OPEN
              /\ messages' = messages]_vars

\* ---------------------------------------------------------------------- C9
\* C9: a delimiter that follows a delimiter changes neither the transcript
\* nor the awaiting flag.
C9_DelimiterIdempotent ==
    [][\A s \in Instances, r \in RandomDraws :
          (lastEvent = "delimiter" /\ OnMessage(s, FinalizeFrame, r)) =>
              /\ messages' = messages
              /\ loading' = loading]_vars

\* two delimiters in a row after a streamed answer
C9_Witness ==
    /\ run.phase = "finalized twice"
    /\ lastEvent = "delimiter"
    /\ run.tokens # <<>>
    /\ messages[Len(messages)].hasAnswer

\* --------------------------------------------------------------------- C10
\* C10: an error frame appends one assistant turn and changes no other: its
\* text is the frame's content if that is present and not empty, the
\* fallback text otherwise, finalized is false, and the awaiting flag is
\* false afterwards.
C10_ErrorAppends ==
    [][Recorded("error") =>
          \A s \in Instances, raw \in Frames, r \in RandomDraws :
              (IsErrorFrame(raw) /\ OnMessage(s, raw, r)) =>
                  /\ Len(messages') = Len(messages) + 1
                  /\ SubSeq(messages', 1, Len(messages)) = messages
                  /\ messages'[Len(messages')].sender = "bot"
                  /\ messages'[Len(messages')].text =
                         IF "content" \in DOMAIN raw.fields /\ raw.fields.content # <<>>
                         THEN raw.fields.content
                         ELSE Str_AnErrorOccurred
                  /\ ~messages'[Len(messages')].hasAnswer
                  /\ ~loading']_vars

\* an error frame without content arrived while an assistant turn was open
C10_Witness ==
    /\ lastEvent = "error"
    /\ Len(messages) = 2
    /\ messages[1].sender = "bot"
    /\ ~messages[1].hasAnswer
    /\ messages[1].text = <<"a">>
    /\ messages[2].text = Str_AnErrorOccurred

\* --------------------------------------------------------------------- C11
\* the instances that are connecting or open
LiveInstances == {s \in Instances : sockets[s].readyState \in {CONNECTING, OPEN}}

\* C11: at any time at most one instance is connecting or open, and it is
\* the one the ref holds; over mount, cleanup and remount a step creates at
\* most one instance, and after it the new instance is the only live one.
C11_AtMostOneLive ==
    /\ [](/\ Cardinality(LiveInstances) <= 1
          /\ \A s \in LiveInstances : s = socketRef)
    /\ [][Len(sockets') # Len(sockets) =>
             /\ Len(sockets') = Len(sockets) + 1
             /\ socketRef' = Len(sockets')
             /\ \A s \in Instances :
                    sockets'[s].readyState \notin {CONNECTING, OPEN}]_vars

\* the effect was re-run while the first instance was live, and the second
\* instance has opened
C11_Witness ==
    /\ Len(sockets) = 2
    /\ sockets[1].closeCalls = 1
    /\ sockets[1].readyState \in {CLOSING, CLOSED}
    /\ socketRef = 2
    /\ sockets[2].readyState = OPEN
    /\ isConnected

\* --------------------------------------------------------------------- C12
\* C12: a cleanup calls close() of an instance at most once over the life of
\* the instance, and not at all when the instance is already closing or
\* closed; it throws nothing and leaves the status not connected; the
\* connect after it creates a new instance and never takes the old one.
C12_TeardownIdempotent ==
    /\ [](\A s \in Instances : sockets[s].closeCalls <= 1)
    /\ [][(Cleanup \/ Remount(AnyReading)) =>
             /\ ~isConnected'
             /\ fault' = fault
             /\ \A s \in Instances :
                    sockets'[s].closeCalls =
                        IF s = socketRef /\ sockets[s].readyState \in {CONNECTING, OPEN}
                        THEN sockets[s].closeCalls + 1
                        ELSE sockets[s].closeCalls
             /\ \A s \in Instances :
                    sockets'[s].readyState \notin {CONNECTING, OPEN}]_vars
    /\ [][Remount(AnyReading) =>
             /\ socketRef' \notin Instances
             /\ socketRef' = Len(sockets) + 1
             /\ Len(sockets') = Len(sockets) + 1
             /\ sockets'[socketRef'].readyState = CONNECTING
             /\ sockets'[socketRef'].closeCalls = 0]_vars

\* the effect was just re-run: the old instance was closed once and a new
\* instance is connecting
C12_Witness ==
    /\ lastEvent = "remount"
    /\ Len(sockets) = 2
    /\ sockets[1].closeCalls = 1
    /\ socketRef = 2
    /\ sockets[2].readyState = CONNECTING
    /\ ~isConnected

\* --------------------------------------------------------------------- C13
\* the frames that end a reply: the final delimiter, an error frame, a
\* malformed frame
IsTerminatingFrame(raw) ==
    raw = FinalizeFrame \/ IsErrorFrame(raw) \/ raw \in {Garbage, JsonNull}

\* a terminating frame was processed, or a connection closed or errored
TerminatingStep ==
    \/ \E s \in Instances, raw \in Frames, r \in RandomDraws :
          OnMessage(s, raw, r) /\ IsTerminatingFrame(raw)
    \/ \E s \in Instances : OnClose(s, AnyReading) \/ OnError(s, AnyReading)

\* C13 as stated: the flag goes from true to false only in a step that
\* processes the final delimiter, an error frame or a malformed frame, or in a
\* close or error of the connection; no submit step clears a true flag.
C13_ClearedOnlyByTerminators ==
    [][(loading /\ ~loading') => TerminatingStep]_vars

\* C13, amended: the flag goes from true to false only in a terminating step
\* or in a submit that is accepted and finds the instance not open; a token,
\* typing or unknown frame and every other submit never clear it.
C13_ClearedByTerminatorsOrLostSubmit ==
    /\ [][(loading /\ ~loading') =>
             \/ TerminatingStep
             \/ SubmitStep /\ ~IsBlank(input) /\ StatusShown /\ ~SocketOpen]_vars
    /\ [][(loading /\ ~loading') =>
             \A s \in Instances, raw \in Frames, r \in RandomDraws :
                 ~IsTerminatingFrame(raw) => ~OnMessage(s, raw, r)]_vars
    /\ [][(SubmitStep /\ (IsBlank(input) \/ ~StatusShown)) => loading' = loading]_vars
    /\ [][(SubmitStep /\ ~IsBlank(input) /\ StatusShown /\ SocketOpen) => loading']_vars

\* a query was awaiting its reply when a second submit found the instance
\* closing and cleared the flag
C13_Witness ==
    /\ lastEvent = "connlost"
    /\ wasLoading
    /\ ~loading
    /\ Len(messages) = 3
    /\ Len(sent) = 1

\* --------------------------------------------------------------------- C14
\* C14: when every submit goes through the page, a query frame is
\* transmitted only in a state where the awaiting flag is false, and the
\* step sets the flag; while the flag is true nothing is transmitted, and the
\* flag is cleared only by a terminating step, so between two transmitted
\* frames a terminating step cleared it and at most one query is outstanding.
C14_TurnTaking ==
    /\ [][sent' # sent =>
             /\ ~loading
             /\ loading'
             /\ Len(sent') = Len(sent) + 1]_vars
    /\ [][loading => sent' = sent]_vars
    /\ [][(loading /\ ~loading') => TerminatingStep]_vars

\* a second query was transmitted after the flag of the first was cleared
C14_Witness ==
    /\ lastEvent = "sent"
    /\ Len(sent) = 2
    /\ ~wasLoading
    /\ loading

\* --------------------------------------------------------------------- C15
\* a callback of instance s ran in this step
CallbackOf(s) ==
    \/ OnOpen(s)
    \/ OnClose(s, AnyReading)
    \/ OnError(s, AnyReading)
    \/ \E raw \in Frames, r \in RandomDraws : OnMessage(s, raw, r)

\* C15: a callback of an instance that the cleanup has discarded (the ref no
\* longer holds it) changes neither the status, nor the awaiting flag, nor the
\* transcript, also when a later connect has created a fresh instance.
C15_StaleCallbacksInert ==
    [][\A s \in Instances :
          (s # socketRef /\ CallbackOf(s)) =>
              UNCHANGED <<isConnected, loading, messages>>]_vars

\* --------------------------------------------------------------------- C16
\* the instance the ref holds has closed or errored
RefClosed == socketRef # Null /\ sockets[socketRef].readyState = CLOSED

\* C16: a closed or errored instance stays closed; while the ref holds one,
\* the status is not connected and stays so, the ref keeps it and no instance
\* is created, until the effect's cleanup and body run again; an instance is
\* created by the effect only, never by a callback.
C16_ClosedIsTerminal ==
    /\ [](RefClosed => ~isConnected)
    /\ [][\A s \in Instances :
             sockets[s].readyState = CLOSED =>
                 sockets'[s].readyState = CLOSED]_vars
    /\ [][(RefClosed /\ ~(Cleanup \/ Remount(AnyReading))) =>
             /\ ~isConnected'
             /\ socketRef' = socketRef
             /\ Len(sockets') = Len(sockets)]_vars
    /\ [][Len(sockets') # Len(sockets) => (Mount \/ Remount(AnyReading))]_vars

\* the only instance has closed, and a submit after that was rejected: the
\* status is still not connected and there is no second instance
C16_Witness ==
    /\ mounted
    /\ lastEvent = "rejected"
    /\ Len(sockets) = 1
    /\ socketRef = 1
    /\ sockets[1].readyState = CLOSED
    /\ ~isConnected
    /\ ~IsBlank(input)

\* --------------------------------------------------------------------- C17
\* C17: a turn with finalized = true is the same turn, at the same place,
\* after every step (but for its id, when that had not been built before);
\* a token that arrives when the last turn is a finalized
\* assistant turn appends a new unfinalized assistant turn holding the
\* token's content.
C17_FinalizedIsFrozen ==
    /\ [][\A i \in 1 .. Len(messages) :
             (messages[i].sender = "bot" /\ messages[i].hasAnswer) =>
                 /\ Len(messages') >= i
                 /\ SameTurn(messages[i], messages'[i])]_vars
    /\ [][Recorded("token") =>
             \A s \in Instances, c \in TokenContents, r \in RandomDraws :
                 (/\ OnMessage(s, TokenFrame(c), r)
                  /\ messages # <<>>
                  /\ messages[Len(messages)].sender = "bot"
                  /\ messages[Len(messages)].hasAnswer) =>
                     /\ Len(messages') = Len(messages) + 1
                     /\ messages'[Len(messages')].sender = "bot"
                     /\ messages'[Len(messages')].text = c
                     /\ ~messages'[Len(messages')].hasAnswer]_vars

\* a token arrived after a finalized assistant turn and opened a second turn
C17_Witness ==
    /\ lastEvent = "token"
    /\ Len(messages) = 2
    /\ messages[1].sender = "bot"
    /\ messages[1].hasAnswer
    /\ messages[2].sender = "bot"
    /\ ~messages[2].hasAnswer

\* --------------------------------------------------------------------- C18
\* C18: the turn an error frame has just created keeps finalized = false and
\* its text through the next step: no token is appended to it and no
\* delimiter finalizes it (the render that builds its id leaves the two).
C18_ErrorTurnKept ==
    [][lastEvent = "error" =>
          /\ Len(messages') >= Len(messages)
          /\ SameTurn(messages[Len(messages)], messages'[Len(messages)])]_vars

\* --------------------------------------------------------------------- C19
\* C19: the final delimiter always sets the awaiting flag to false; with an
\* empty transcript or a user turn last it leaves the transcript as it is,
\* whatever the earlier turns are; with an assistant turn last it keeps every
\* other turn and, of the last one, the sender, the id and the text.
C19_DelimiterTouchesLastOnly ==
    [][Recorded("delimiter") =>
          \A s \in Instances, r \in RandomDraws :
              OnMessage(s, FinalizeFrame, r) =>
                  /\ loading' = FALSE
                  /\ IF messages = <<>> \/ messages[Len(messages)].sender = "user"
                     THEN messages' = messages
                     ELSE /\ Len(messages') = Len(messages)
                          /\ \A i \in 1 .. (Len(messages) - 1) :
                                 messages'[i] = messages[i]
                          /\ messages'[Len(messages)] =
                                 [messages[Len(messages)] EXCEPT !.hasAnswer = TRUE]]_vars

\* the delimiter arrived while a query was awaiting, with a user turn last
\* and an unfinalized assistant turn before it
C19_Witness ==
    /\ lastEvent = "delimiter"
    /\ wasLoading
    /\ ~loading
    /\ Len(messages) = 2
    /\ messages[1].sender = "bot"
    /\ ~messages[1].hasAnswer
    /\ messages[2].sender = "user"

\* --------------------------------------------------------------------- C20
\* a frame of type delimiter whose text is not exactly the sentinel
IsOtherDelimiter(raw) ==
    /\ raw.syntax = "object"
    /\ "type" \in DOMAIN raw.fields
    /\ raw.fields.type = "delimiter"
    /\ ~("text" \in DOMAIN raw.fields /\ raw.fields.text = <<"#", "#", "#">>)

\* C20: a delimiter frame whose text is not exactly "###" finalizes nothing:
\* it leaves the transcript and the awaiting flag as they are, that is, no
\* step that changes the transcript or the flag is the processing of such a
\* frame.
C20_OtherDelimiterIgnored ==
    [][(messages' # messages \/ loading' # loading) =>
          \A s \in Instances, raw \in Frames, r \in RandomDraws :
              IsOtherDelimiter(raw) => ~OnMessage(s, raw, r)]_vars

\* such a frame arrived while a query was awaiting and its reply was still
\* an unfinalized turn: the flag is still true, the turn still unfinalized
C20_Witness ==
    /\ lastEvent = "other delimiter"
    /\ wasLoading
    /\ loading
    /\ Len(messages) = 2
    /\ messages[1].sender = "user"
    /\ messages[2].sender = "bot"
    /\ ~messages[2].hasAnswer

\* --------------------------------------------------------------------- C21
\* a well-formed frame that is a typing event or has no recognized type
IsTypingOrUnknown(raw) ==
    /\ raw.syntax = "object"
    /\ \/ "type" \notin DOMAIN raw.fields
       \/ raw.fields.type \notin {"token", "delimiter", "error"}

\* what the component holds: every variable but the histories
component == <<input, messages, loading, isConnected, socketRef, sockets,
               mounted, sent, fault, rendered, now>>

\* C21: a typing event or a well-formed frame of an unrecognized type leaves
\* the transcript, the awaiting flag and the status as they are, throws
\* nothing and leaves the instance open; it changes nothing the component
\* holds, so the events after it are handled as if it had not arrived.  That
\* is: no step that changes what the component holds is the processing of
\* such a frame (the handler draws no id for it).
C21_TypingAndUnknownIgnored ==
    [][(component' # component /\ (Recorded("typing") \/ Recorded("unknown"))) =>
          \A s \in Instances, raw \in Frames :
              IsTypingOrUnknown(raw) => ~OnMessage(s, raw, 0)]_vars

\* a typing event arrived in the middle of a reply: the query is still
\* awaiting, the reply still unfinalized, the status still connected
C21_Witness ==
    /\ lastEvent = "typing"
    /\ wasLoading
    /\ loading
    /\ isConnected
    /\ ~fault
    /\ Len(messages) = 2
    /\ messages[2].sender = "bot"
    /\ ~messages[2].hasAnswer

\* --------------------------------------------------------------------- C22
\* what C22 holds of a submit: it keeps the turns there are and appends one
\* turn, a user turn with the submitted text; it sets the awaiting flag, and
\* it transmits one frame, the JSON object whose only field, message, is
\* that same text
SendsOnce ==
    /\ Len(messages') = Len(messages) + 1
    /\ \A i \in 1 .. Len(messages) : messages'[i] = messages[i]
    /\ messages'[Len(messages')].sender = "user"
    /\ messages'[Len(messages')].text = input
    /\ loading'
    /\ Len(sent') = Len(sent) + 1
    /\ \A i \in 1 .. Len(sent) : sent'[i] = sent[i]
    /\ JSONparse(sent'[Len(sent')]) =
           [threw |-> FALSE, isNull |-> FALSE, fields |-> [message |-> input]]
    /\ fault' = fault

\* C22 as claimed: a submit of a text that is not blank, made while the
\* instance is open, appends the user turn, sets the flag and transmits the
\* frame.
C22_SubmitSendsWhenOpen ==
    [][(~IsBlank(input) /\ SocketOpen /\ SubmitStep) => SendsOnce]_vars

\* C22 as amended: so does such a submit when the status the component
\* last rendered is connected; when it is not, the submit changes nothing
\* and transmits nothing although the instance is open.
C22_SubmitSends ==
    [][(~IsBlank(input) /\ SocketOpen /\ SubmitStep) =>
          IF StatusShown
          THEN SendsOnce
          ELSE /\ messages' = messages
               /\ loading' = loading
               /\ sent' = sent
               /\ input' = input]_vars

\* the text " hi" was submitted on an open connection
C22_Witness ==
    /\ lastEvent = "sent"
    /\ loading
    /\ Len(messages) = 1
    /\ messages[1].sender = "user"
    /\ messages[1].text = <<" ", "h", "i">>
    /\ Len(sent) = 1
    /\ JSONparse(sent[1]).fields.message = <<" ", "h", "i">>

\* --------------------------------------------------------------------- C23
\* C23: of any two turns of the transcript whose ids have been built, the
\* one appended later has the strictly greater id, whatever the clock read
\* and Math.random() drew when the two were built.
C23_IdsIncrease ==
    \A i \in 1 .. Len(messages), j \in 1 .. Len(messages) :
        (i < j /\ messages[i].id # Unread /\ messages[j].id # Unread) =>
            messages[i].id < messages[j].id

\* --------------------------------------------------------------------- C24
\* a callback that clears the flag can still fire: an instance has not closed
CallbackPending ==
    \E s \in Instances : sockets[s].readyState \in {CONNECTING, OPEN, CLOSING}

\* C24: when every instance goes on to deliver a terminating frame, to close
\* or to fail, a true awaiting flag of the mounted component becomes false
\* (or the component is unmounted, and the flag with it); and in no state is
\* the flag of the mounted component true with every instance closed.
C24_AwaitingEnds ==
    /\ []((mounted /\ loading) => CallbackPending)
    /\ ((mounted /\ loading) ~> (~loading \/ ~mounted))

\* the connection closed while a query was awaiting, and the flag is false
C24_Witness ==
    /\ mounted
    /\ lastEvent \in {"wsclose", "wserror"}
    /\ wasLoading
    /\ ~loading
    /\ ~CallbackPending

\* --------------------------------------------------------------------- C25
\* C25: in every state of the mounted component the awaiting flag is true
\* only if the status is connected.
C25_AwaitingOnlyWhenConnected ==
    (mounted /\ loading) => isConnected

\* --------------------------------------------------------------------- C26
\* the texts of the user turns of m, in transcript order
RECURSIVE UserTexts(_)
UserTexts(m) ==
    IF m = <<>> THEN <<>>
    ELSE IF Head(m).sender = "user"
         THEN <<Head(m).text>> \o UserTexts(Tail(m))
         ELSE UserTexts(Tail(m))

\* the messages of the transmitted frames, in transmission order
SentTexts == [i \in 1 .. Len(sent) |-> JSONparse(sent[i]).fields.message]

\* the connection-lost replies in the transcript
LostReplies ==
    {i \in 1 .. Len(messages) :
        messages[i].sender = "bot" /\ messages[i].text = Str_ConnectionLost}

\* C26 as stated: the user turns are the transmitted queries, one for one
\* and in order.
C26_UserTurnsAreSentFrames ==
    UserTexts(messages) = SentTexts

\* C26, amended: there are at least as many user turns as transmitted
\* frames; a step that transmits a frame appends the one user turn that holds
\* the frame's message; every other step that adds a user turn appends that
\* turn together with the connection-lost reply and transmits nothing.
C26_SentFramesAreUserTurns ==
    /\ [](Len(sent) <= Len(UserTexts(messages)))
    /\ [][sent' # sent =>
             /\ Len(sent') = Len(sent) + 1
             /\ SubSeq(sent', 1, Len(sent)) = sent
             /\ UserTexts(messages') =
                    Append(UserTexts(messages),
                           JSONparse(sent'[Len(sent')]).fields.message)]_vars
    /\ [][(UserTexts(messages') # UserTexts(messages) /\ sent' = sent) =>
             /\ Len(messages') = Len(messages) + 2
             /\ SubSeq(messages', 1, Len(messages)) = messages
             /\ messages'[Len(messages) + 1].sender = "user"
             /\ messages'[Len(messages) + 1].text = input
             /\ messages'[Len(messages) + 2].sender = "bot"
             /\ messages'[Len(messages) + 2].text = Str_ConnectionLost
             /\ ~messages'[Len(messages) + 2].hasAnswer]_vars

\* one query was transmitted and a second submit found the instance closing
C26_Witness ==
    /\ lastEvent = "connlost"
    /\ Len(sent) = 1
    /\ Len(UserTexts(messages)) = 2
    /\ Cardinality(LostReplies) = 1

====
